---- MODULE Spec2Model ----
(***************************************************************************)
(* vhm-common-utils: the settings loader (config.py), the validated        *)
(* records (data_models.py) and the embedding entry point (embedding.py).  *)
(*                                                                         *)
(* Python values are tagged records.  A configuration value is             *)
(* [type, s]: a str carries its text in s, None carries nothing.           *)
(* os.environ and the parsed .env file are insertion-ordered mappings,     *)
(* modelled as sequences of <<name, value>> pairs with distinct names.     *)
(***************************************************************************)
EXTENDS Integers, Sequences, FiniteSets, TLC

VARIABLES environ, dotenv, made, settings, calls, changes, kwargs, built

vars == <<environ, dotenv, made, settings, calls, changes, kwargs, built>>

(* ------------------------------ bounds --------------------------------- *)

\* most entries of the process environment and the .env file together
MaxVars == 2
\* most changes to the environment or the .env file in one run
MaxChanges == 2
\* most get_embedding calls in one run
MaxCalls == 3

\* most characters of a text given to a record, the long text apart
MaxTextLen == 2

(* --------------------------- Python values ----------------------------- *)

\* a configuration value: a str with its text, or None
PyStr(s) == [type |-> "str", s |-> s]

None == [type |-> "NoneType", s |-> ""]

\* an argument or a field of a record, and a value get_embedding returns.
\* A str is the code points of unit repeated times times, as the tests build
\* their long texts ("This is a very long text. " * 1000); int, bool and
\* datetime (seconds since the epoch) keep their number in num, a float its
\* thousandths; a dict or a list keeps its entries in items.
Value(type, unit, times, num, items) ==
    [type |-> type, unit |-> unit, times |-> times, num |-> num, items |-> items]

Text(unit, times) == Value("str", unit, times, 0, <<>>)

PyLen(t) == Len(t.unit) * t.times

PyInt(n) == Value("int", <<>>, 0, n, <<>>)

PyFloat(thousandths) == Value("float", <<>>, 0, thousandths, <<>>)

PyBool(b) == Value("bool", <<>>, 0, IF b THEN 1 ELSE 0, <<>>)

PyDatetime(seconds) == Value("datetime", <<>>, 0, seconds, <<>>)

PyDict(items) == Value("dict", <<>>, 0, 0, items)

PyList(items) == Value("list", <<>>, 0, 0, items)

PyNone == Value("NoneType", <<>>, 0, 0, <<>>)

\* no construction yet
NoCall == [cls |-> "", args |-> <<>>]

NotBuilt == [ok |-> FALSE, fields |-> <<>>, errors |-> {"not built"}]

(* ------------------------------ config.py ------------------------------ *)

\* the recognized options: the fields the Settings class declares
Fields ==
    { "kafka_bootstrap_servers", "qdrant_url", "qdrant_collection",
      "embedding_model", "ollama_base_url", "portkey_api_key",
      "portkey_base_url" }

\* the defaults the class body assigns
Defaults ==
    [ f \in Fields |->
        CASE f = "kafka_bootstrap_servers" -> PyStr("localhost:9092")
          [] f = "qdrant_url"              -> PyStr("http://localhost:6333")
          [] f = "qdrant_collection"       -> PyStr("anchors")
          [] f = "embedding_model"         -> PyStr("deterministic")
          [] f = "ollama_base_url"         -> PyStr("http://localhost:11434")
          [] f = "portkey_api_key"         -> None
          [] f = "portkey_base_url"        -> PyStr("https://api.portkey.ai/v1") ]

\* names a variable of the environment or a key of the .env file may have:
\* every option in upper case, two options in another casing, and two names
\* that are no option
Names ==
    { "KAFKA_BOOTSTRAP_SERVERS", "QDRANT_URL", "QDRANT_COLLECTION",
      "EMBEDDING_MODEL", "OLLAMA_BASE_URL", "PORTKEY_API_KEY",
      "PORTKEY_BASE_URL", "qdrant_url", "Embedding_Model",
      "VHM_DEBUG", "path" }

\* str.lower() on those names
Lower(n) ==
    CASE n = "KAFKA_BOOTSTRAP_SERVERS" -> "kafka_bootstrap_servers"
      [] n = "QDRANT_URL"              -> "qdrant_url"
      [] n = "QDRANT_COLLECTION"       -> "qdrant_collection"
      [] n = "EMBEDDING_MODEL"         -> "embedding_model"
      [] n = "OLLAMA_BASE_URL"         -> "ollama_base_url"
      [] n = "PORTKEY_API_KEY"         -> "portkey_api_key"
      [] n = "PORTKEY_BASE_URL"        -> "portkey_base_url"
      [] n = "qdrant_url"              -> "qdrant_url"
      [] n = "Embedding_Model"         -> "embedding_model"
      [] n = "VHM_DEBUG"               -> "vhm_debug"
      [] n = "path"                    -> "path"

\* values a variable or key may carry
Values == { "portkey", "" }

\* case_sensitive is left at its default (False): names are lower-cased and,
\* of two names that lower-case alike, the later one in the mapping wins
Positions(pairs, f) == { i \in 1..Len(pairs) : Lower(pairs[i][1]) = f }

Has(pairs, f) == Positions(pairs, f) # {}

Get(pairs, f) ==
    LET P == Positions(pairs, f)
        last == CHOOSE i \in P : \A j \in P : j <= i
    IN  pairs[last][2]

\* the .env file: absent, or present with its parsed keys
NoFile == [exists |-> FALSE, keys |-> <<>>]

File(pairs) == [exists |-> TRUE, keys |-> pairs]

\* the setting BaseSettings has when extra is not given
ExtraForbid == "forbid"

\* model_config: extra="ignore"
Extra == "ignore"

\* keys of the .env file that name no field; the dotenv source hands them to
\* validation unless extra is "ignore"
FileExtras(file) ==
    IF file.exists /\ Extra # "ignore"
    THEN { i \in 1..Len(file.keys) : Lower(file.keys[i][1]) \notin Fields }
    ELSE {}

\* the .env file consulted before the environment
FieldFileFirst(env, file, f) ==
    IF file.exists /\ Has(file.keys, f) THEN PyStr(Get(file.keys, f))
    ELSE IF Has(env, f) THEN PyStr(Get(env, f))
    ELSE Defaults[f]

\* environment names matched with their case (case_sensitive=True)
FieldCaseSensitive(env, file, f) ==
    IF \E i \in 1..Len(env) : env[i][1] = f THEN PyStr(Get(env, f))
    ELSE IF file.exists /\ Has(file.keys, f) THEN PyStr(Get(file.keys, f))
    ELSE Defaults[f]

\* one field of Settings(): environment first, then the .env file, then the
\* default
Field(env, file, f) ==
    IF Has(env, f) THEN PyStr(Get(env, f))
    ELSE IF file.exists /\ Has(file.keys, f) THEN PyStr(Get(file.keys, f))
    ELSE Defaults[f]

ValidationError == [ok |-> FALSE, fields |-> <<>>]

\* Settings(): the instance, or the validation error of a forbidden extra
Settings(env, file) ==
    IF FileExtras(file) # {} THEN ValidationError
    ELSE [ok |-> TRUE, fields |-> [f \in Fields |-> Field(env, file, f)]]

(* --------------------- inputs: environment and file -------------------- *)

\* sequences of at most n pairs with distinct names
RECURSIVE Mappings(_)
Mappings(n) ==
    IF n = 0 THEN { <<>> }
    ELSE LET shorter == Mappings(n - 1)
         IN  shorter \cup
             { Append(m, <<k, v>>) :
                 m \in { x \in shorter : Len(x) = n - 1 },
                 k \in Names, v \in Values }

Distinct(m) == \A i, j \in 1..Len(m) : m[i][1] = m[j][1] => i = j

Environments(n) == { m \in Mappings(n) : Distinct(m) }

Files(n) == { NoFile } \cup { File(m) : m \in Environments(n) }

Size(env, file) == Len(env) + Len(file.keys)

NotMade == [ok |-> FALSE, fields |-> << "not made" >>]

NotLoaded == [ok |-> FALSE, fields |-> << "not loaded" >>]

(* -------------- specification: one construction of Settings ----------- *)

InitSettings ==
    /\ environ \in Environments(MaxVars)
    /\ dotenv \in Files(MaxVars - Len(environ))
    /\ made = NotMade
    /\ settings = NotLoaded
    /\ calls = <<>>
    /\ changes = 0
    /\ kwargs = NoCall
    /\ built = NotBuilt

\* settings = Settings(), as the tests construct it
Construct ==
    /\ made = NotMade
    /\ made' = Settings(environ, dotenv)
    /\ UNCHANGED <<environ, dotenv, settings, calls, changes, kwargs, built>>

NextSettings == Construct

SpecSettings == InitSettings /\ [][NextSettings]_vars

(* ----------------------------- embedding.py --------------------------- *)

\* the repetitions of the long text
LongTimes == 1000

\* "Lorem ipsum dolor sit amet, " * 1000
LongText ==
    Text(<<76, 111, 114, 101, 109, 32, 105, 112, 115, 117, 109, 32, 100, 111,
           108, 111, 114, 32, 115, 105, 116, 32, 97, 109, 101, 116, 44, 32>>,
         LongTimes)

\* the texts get_embedding is called with: empty, plain ASCII ("The"),
\* unicode with an emoji, and the long text
Texts ==
    { Text(<<>>, 1), Text(<<84, 104, 101>>, 1), Text(<<12371, 128640>>, 1), LongText }

\* what a call does: return a value or raise
Returned(v) == [kind |-> "return", value |-> v, error |-> ""]

Raised(e) == [kind |-> "raise", value |-> PyNone, error |-> e]

\* a get_embedding that reads EMBEDDING_MODEL with os.getenv on each call
\* instead of the settings object, and reaches for the backend it names
get_embedding_getenv(text, s, env) ==
    IF Has(env, "embedding_model") /\ Get(env, "embedding_model") # "deterministic"
    THEN Raised("ConnectionError")
    ELSE Returned(PyNone)

\* get_embedding(text): the body is `pass`, so the call returns None
\* whatever the text, the settings and the environment
get_embedding(text, s, env) == Returned(PyNone)

\* a settings object that is made anew whenever it is asked for
config_reloaded(s, env, file) == Settings(env, file)

\* settings = Settings() runs when the config module is first imported;
\* later imports find the module loaded and leave its settings object alone
config(s, env, file) == IF s.ok THEN s ELSE Settings(env, file)

(* ------------------ specification: the life of a process --------------- *)

Init ==
    /\ environ = <<>>
    /\ dotenv = NoFile
    /\ made = NotMade
    /\ settings = NotLoaded
    /\ calls = <<>>
    /\ changes = 0
    /\ kwargs = NoCall
    /\ built = NotBuilt

\* the mapping with its i-th entry deleted
Without(pairs, i) == SubSeq(pairs, 1, i - 1) \o SubSeq(pairs, i + 1, Len(pairs))

Index(pairs, k) == { i \in 1..Len(pairs) : pairs[i][1] = k }

\* mapping[k] = v: an existing name keeps its place, a new one goes last
Put(pairs, k, v) ==
    IF Index(pairs, k) # {}
    THEN [i \in 1..Len(pairs) |-> IF pairs[i][1] = k THEN <<k, v>> ELSE pairs[i]]
    ELSE Append(pairs, <<k, v>>)

\* os.environ[k] = v (monkeypatch.setenv)
setenv(k, v) ==
    /\ changes < MaxChanges
    /\ Index(environ, k) # {} \/ Size(environ, dotenv) < MaxVars
    /\ environ' = Put(environ, k, v)
    /\ changes' = changes + 1
    /\ UNCHANGED <<dotenv, made, settings, calls, kwargs, built>>

\* del os.environ[k] (monkeypatch undoing a setenv)
delenv(k) ==
    /\ changes < MaxChanges
    /\ \E i \in Index(environ, k) : environ' = Without(environ, i)
    /\ changes' = changes + 1
    /\ UNCHANGED <<dotenv, made, settings, calls, kwargs, built>>

\* the .env file is written with key k set to v
WriteEnvFile(k, v) ==
    /\ changes < MaxChanges
    /\ Index(dotenv.keys, k) # {} \/ Size(environ, dotenv) < MaxVars
    /\ dotenv' = File(Put(dotenv.keys, k, v))
    /\ changes' = changes + 1
    /\ UNCHANGED <<environ, made, settings, calls, kwargs, built>>

\* the .env file is removed
RemoveEnvFile ==
    /\ changes < MaxChanges
    /\ dotenv.exists
    /\ dotenv' = NoFile
    /\ changes' = changes + 1
    /\ UNCHANGED <<environ, made, settings, calls, kwargs, built>>

\* import of vhm_common_utils.config, directly or through embedding.py
ImportConfig ==
    /\ settings' = config(settings, environ, dotenv)
    /\ UNCHANGED <<environ, dotenv, made, calls, changes, kwargs, built>>

\* a call get_embedding(text); the embedding module imported config before
GetEmbedding(text) ==
    /\ settings.ok
    /\ Len(calls) < MaxCalls
    /\ calls' = Append(calls, [text |-> text,
                               result |-> get_embedding(text, settings, environ)])
    /\ UNCHANGED <<environ, dotenv, made, settings, changes, kwargs, built>>

\* the names the process changes while it runs: the options that select the
\* embedding backend and its key, and a name that is no option
LiveNames == { "EMBEDDING_MODEL", "PORTKEY_API_KEY", "VHM_DEBUG" }

Next ==
    \/ \E k \in LiveNames, v \in Values : setenv(k, v)
    \/ \E k \in LiveNames : delenv(k)
    \/ \E k \in LiveNames, v \in Values : WriteEnvFile(k, v)
    \/ RemoveEnvFile
    \/ ImportConfig
    \/ \E text \in Texts : GetEmbedding(text)

Spec == Init /\ [][Next]_vars

(* ---------------------------- data_models.py --------------------------- *)

\* the outcome of validating one value
Valid(v) == [ok |-> TRUE, value |-> v]

Invalid == [ok |-> FALSE, value |-> PyNone]

\* texts with a known reading as a number, a boolean or a timestamp
\* "2.5"
NumberText == Text(<<50, 46, 53>>, 1)

\* "yes"
YesText == Text(<<121, 101, 115>>, 1)

\* "2024-01-01T00:00:00Z"
IsoText ==
    Text(<<50, 48, 50, 52, 45, 48, 49, 45, 48, 49, 84,
           48, 48, 58, 48, 48, 58, 48, 48, 90>>, 1)

\* the instant IsoText names, in seconds since the epoch
IsoSeconds == 19723 * 86400

\* code points str.strip() removes: tab, newline, carriage return, space
Whitespace == { 9, 10, 13, 32 }

RECURSIVE LStrip(_)
LStrip(cs) ==
    IF cs # <<>> /\ Head(cs) \in Whitespace THEN LStrip(Tail(cs)) ELSE cs

RECURSIVE RStrip(_)
RStrip(cs) ==
    IF cs # <<>> /\ cs[Len(cs)] \in Whitespace
    THEN RStrip(SubSeq(cs, 1, Len(cs) - 1))
    ELSE cs

\* a str field with str_strip_whitespace switched on
validate_str_strip(v) ==
    IF v.type = "str"
    THEN Valid(IF v.times = 1 THEN Text(RStrip(LStrip(v.unit)), 1) ELSE v)
    ELSE Invalid

\* a str field that turns numbers into their text
validate_str_coerce(v) ==
    IF v.type = "str" THEN Valid(v)
    ELSE IF v.type = "int" THEN Valid(Text(<<48 + (v.num % 10)>>, 1))
    ELSE Invalid

\* a field annotated str: a str is kept as it is, anything else is refused
validate_str(v) == IF v.type = "str" THEN Valid(v) ELSE Invalid

\* str | None
validate_optional_str(v) == IF v.type = "NoneType" THEN Valid(v) ELSE validate_str(v)

\* float, not strict: an int or a numeric text is converted
validate_float(v) ==
    CASE v.type = "float" -> Valid(v)
      [] v.type = "int"   -> Valid(PyFloat(v.num * 1000))
      [] v.type = "str"   -> IF v = NumberText THEN Valid(PyFloat(2500)) ELSE Invalid
      [] OTHER            -> Invalid

\* bool, not strict: 0, 1 and the texts that name a boolean are converted
validate_bool(v) ==
    CASE v.type = "bool" -> Valid(v)
      [] v.type = "int"  -> IF v.num \in {0, 1} THEN Valid(PyBool(v.num = 1)) ELSE Invalid
      [] v.type = "str"  -> IF v = YesText THEN Valid(PyBool(TRUE)) ELSE Invalid
      [] OTHER           -> Invalid

\* datetime.datetime, not strict: a Unix timestamp or an ISO 8601 text is
\* converted
validate_datetime(v) ==
    CASE v.type = "datetime" -> Valid(v)
      [] v.type = "int"      -> Valid(PyDatetime(v.num))
      [] v.type = "str"      -> IF v = IsoText THEN Valid(PyDatetime(IsoSeconds)) ELSE Invalid
      [] OTHER               -> Invalid

\* Dict[str, Any]: a dict whose keys are all str; the values are kept
validate_dict(v) ==
    IF /\ v.type = "dict"
       /\ \A i \in 1..Len(v.items) : validate_str(v.items[i][1]).ok
    THEN Valid(v)
    ELSE Invalid

validate(annotation, v) ==
    CASE annotation = "str"            -> validate_str(v)
      [] annotation = "str | None"     -> validate_optional_str(v)
      [] annotation = "float"          -> validate_float(v)
      [] annotation = "bool"           -> validate_bool(v)
      [] annotation = "datetime"       -> validate_datetime(v)
      [] annotation = "Dict[str, Any]" -> validate_dict(v)

\* class Anchor(BaseModel)
AnchorAnnotations ==
    [ anchor_id |-> "str", text |-> "str", stored_at |-> "datetime",
      salience |-> "float", meta |-> "Dict[str, Any]" ]

AnchorDefaultsZero == [ salience |-> PyFloat(0), meta |-> PyDict(<<>>) ]

\* salience: Field(default=1.0); meta: Field(default_factory=dict)
AnchorDefaults == [ salience |-> PyFloat(1000), meta |-> PyDict(<<>>) ]

\* class IndexedAnchorResponse(BaseModel)
ResponseAnnotations ==
    [ anchor_id |-> "str", ok |-> "bool", reason |-> "str | None",
      detail |-> "str | None" ]

ResponseDefaults == [ reason |-> PyNone, detail |-> PyNone ]

\* BaseModel.__init__(**args): every field without a default is required,
\* every argument is validated against its annotation, a default is taken
\* as it is; one failure fails the construction and names the field
BaseModel(annotations, defaults, args) ==
    LET names == DOMAIN annotations
        errors ==
            { f \in names :
                IF f \in DOMAIN args
                THEN ~ validate(annotations[f], args[f]).ok
                ELSE f \notin DOMAIN defaults }
    IN  IF errors # {}
        THEN [ok |-> FALSE, fields |-> <<>>, errors |-> errors]
        ELSE [ok |-> TRUE,
              fields |-> [ f \in names |->
                            IF f \in DOMAIN args
                            THEN validate(annotations[f], args[f]).value
                            ELSE defaults[f] ],
              errors |-> {}]

Anchor(args) == BaseModel(AnchorAnnotations, AnchorDefaults, args)

IndexedAnchorResponse(args) == BaseModel(ResponseAnnotations, ResponseDefaults, args)

(* ------------- specification: one construction of a record ------------- *)

\* the code points texts are made of: NUL, newline, "A" and an emoji
Alphabet == { 0, 10, 65, 128512 }

RECURSIVE Strings(_)
Strings(n) ==
    IF n = 0 THEN { <<>> }
    ELSE LET shorter == Strings(n - 1)
         IN  shorter \cup
             { Append(cs, c) : cs \in { x \in shorter : Len(x) = n - 1 }, c \in Alphabet }

\* an argument that is not passed
Omitted == Value("omitted", <<>>, 0, 0, <<>>)

\* the keyword arguments: the chosen values, without the omitted ones
Keywords(choice) ==
    [ f \in { g \in DOMAIN choice : choice[g] # Omitted } |-> choice[f] ]

IdArgs == { Omitted, Text(<<65>>, 1), PyInt(123) }

TextArgs ==
    { Omitted, PyInt(5), PyNone, LongText } \cup { Text(cs, 1) : cs \in Strings(MaxTextLen) }

StoredAtArgs ==
    { Omitted, PyDatetime(IsoSeconds), IsoText, PyInt(IsoSeconds), Text(<<65>>, 1), PyNone }

SalienceArgs ==
    { Omitted, PyFloat(999990), PyFloat(1), PyInt(2), NumberText, Text(<<65>>, 1), PyNone }

MetaArgs ==
    { Omitted, PyDict(<<>>),
      PyDict(<< <<Text(<<65>>, 1), PyList(<<PyInt(1), PyInt(42)>>)>> >>),
      PyDict(<< <<Text(<<65>>, 1), PyDict(<< <<Text(<<65>>, 1), Text(<<65, 65>>, 1)>> >>)>> >>),
      PyDict(<< <<PyInt(1), Text(<<65>>, 1)>> >>),
      Text(<<65>>, 1), PyNone }

OkArgs == { Omitted, PyBool(TRUE), PyBool(FALSE), PyInt(1), PyInt(2), YesText, Text(<<65>>, 1), PyNone }

ReasonArgs == { Omitted, PyNone, Text(<<65, 65>>, 1), PyInt(5) }

AnchorCalls ==
    { [cls |-> "Anchor",
       args |-> Keywords([anchor_id |-> a, text |-> t, stored_at |-> d,
                          salience |-> x, meta |-> m])] :
        a \in IdArgs, t \in TextArgs, d \in StoredAtArgs, x \in SalienceArgs, m \in MetaArgs }

ResponseCalls ==
    { [cls |-> "IndexedAnchorResponse",
       args |-> Keywords([anchor_id |-> a, ok |-> o, reason |-> r, detail |-> d])] :
        a \in IdArgs, o \in OkArgs, r \in ReasonArgs, d \in ReasonArgs }

InitModels ==
    /\ kwargs \in AnchorCalls \cup ResponseCalls
    /\ built = NotBuilt
    /\ environ = <<>>
    /\ dotenv = NoFile
    /\ made = NotMade
    /\ settings = NotLoaded
    /\ calls = <<>>
    /\ changes = 0

\* Anchor(**kwargs)
NewAnchor ==
    /\ kwargs.cls = "Anchor"
    /\ built = NotBuilt
    /\ built' = Anchor(kwargs.args)
    /\ UNCHANGED <<environ, dotenv, made, settings, calls, changes, kwargs>>

\* IndexedAnchorResponse(**kwargs)
NewResponse ==
    /\ kwargs.cls = "IndexedAnchorResponse"
    /\ built = NotBuilt
    /\ built' = IndexedAnchorResponse(kwargs.args)
    /\ UNCHANGED <<environ, dotenv, made, settings, calls, changes, kwargs>>

NextModels == NewAnchor \/ NewResponse

SpecModels == InitModels /\ [][NextModels]_vars

(* ------------------------ claims about Settings() ---------------------- *)

\* the defaults the specification documents
Documented ==
    [ f \in Fields |->
        CASE f = "kafka_bootstrap_servers" -> PyStr("localhost:9092")
          [] f = "qdrant_url"              -> PyStr("http://localhost:6333")
          [] f = "qdrant_collection"       -> PyStr("anchors")
          [] f = "embedding_model"         -> PyStr("deterministic")
          [] f = "ollama_base_url"         -> PyStr("http://localhost:11434")
          [] f = "portkey_api_key"         -> None
          [] f = "portkey_base_url"        -> PyStr("https://api.portkey.ai/v1") ]

\* the values a mapping gives under names that match option f, whatever
\* their casing
Matching(pairs, f) ==
    { PyStr(pairs[i][2]) : i \in { j \in 1..Len(pairs) : Lower(pairs[j][1]) = f } }

Recognized(pairs) == { i \in 1..Len(pairs) : Lower(pairs[i][1]) \in Fields }

Unknown(pairs) == { i \in 1..Len(pairs) : Lower(pairs[i][1]) \notin Fields }

Constructed == made # NotMade

\* C4: every option of Settings() takes the value of the environment
\* variable of its name, matched without regard to case, if one is set;
\* otherwise the value of that key in the .env file, if the file exists and
\* has the key; otherwise the documented default.
C4_Precedence ==
    Constructed =>
        /\ made.ok
        /\ \A f \in Fields :
              IF Matching(environ, f) # {}
              THEN made.fields[f] \in Matching(environ, f)
              ELSE IF dotenv.exists /\ Matching(dotenv.keys, f) # {}
              THEN made.fields[f] \in Matching(dotenv.keys, f)
              ELSE made.fields[f] = Documented[f]

\* C4 witness: an option set in the environment under a lower-case name and
\* in the .env file with another value; the environment's value was taken.
C4_Witness ==
    /\ Constructed /\ made.ok
    /\ \E i \in 1..Len(environ), j \in 1..Len(dotenv.keys) :
          /\ environ[i][1] = "qdrant_url"
          /\ dotenv.keys[j][1] = "QDRANT_URL"
          /\ environ[i][2] # dotenv.keys[j][2]
          /\ made.fields["qdrant_url"] = PyStr(environ[i][2])

\* C5: with no override every field has its documented default, and with
\* exactly one recognized environment variable set exactly the field of that
\* name has the variable's value and every other field its default.
C5_DefaultsAndSingleOverride ==
    (Constructed /\ Recognized(dotenv.keys) = {}) =>
        /\ made.ok
        /\ Recognized(environ) = {} => made.fields = Documented
        /\ \A i \in Recognized(environ) :
              Recognized(environ) = {i} =>
                made.fields =
                    [Documented EXCEPT ![Lower(environ[i][1])] = PyStr(environ[i][2])]

\* C5 witness: one recognized variable is set, its field differs from the
\* default and another field is at its default.
C5_Witness ==
    /\ Constructed /\ made.ok
    /\ Recognized(dotenv.keys) = {}
    /\ Cardinality(Recognized(environ)) = 1
    /\ made.fields["embedding_model"] = PyStr("portkey")
    /\ made.fields["qdrant_collection"] = PyStr("anchors")

\* C9: a key of the environment or of the .env file that is no recognized
\* option never makes Settings() fail, and the result is the one obtained
\* with that key absent.
C9_UnknownKeysIgnored ==
    Constructed =>
        /\ (Unknown(environ) # {} \/ Unknown(dotenv.keys) # {}) => made.ok
        /\ \A i \in Unknown(environ) :
              made = Settings(Without(environ, i), dotenv)
        /\ \A i \in Unknown(dotenv.keys) :
              made = Settings(environ, File(Without(dotenv.keys, i)))

\* C9 witness: Settings() was constructed with an unknown key in the .env
\* file and an unknown variable in the environment.
C9_Witness ==
    /\ Constructed /\ made.ok
    /\ Unknown(environ) # {}
    /\ Unknown(dotenv.keys) # {}

(* ---------------- claims about get_embedding and settings -------------- *)

Loaded == settings.ok

\* plain ASCII, unicode with an emoji, and every text of 10,000 characters
\* or more
Representative ==
    { Text(<<84, 104, 101>>, 1), Text(<<12371, 128640>>, 1) }
        \cup { t \in Texts : PyLen(t) >= 10000 }

IsVector(r) ==
    /\ r.kind = "return"
    /\ r.value.type = "list"
    /\ Len(r.value.items) > 0

\* C1: get_embedding returns a non-empty list of numbers for plain ASCII
\* text, for unicode text with an emoji and for a text of at least 10,000
\* characters.
C1_EmbeddingIsVector ==
    \A i \in 1..Len(calls) :
        calls[i].text \in Representative => IsVector(calls[i].result)

\* C2: with embedding_model "portkey" and no portkey_api_key, every call of
\* get_embedding fails with a configuration error: it returns nothing and
\* raises no transport error.
C2_PortkeyWithoutKeyFails ==
    ( /\ Loaded
      /\ settings.fields["embedding_model"] = PyStr("portkey")
      /\ settings.fields["portkey_api_key"] = None )
        => \A i \in 1..Len(calls) :
              /\ calls[i].result.kind = "raise"
              /\ calls[i].result.error = "ConfigurationError"

\* C3: with embedding_model "deterministic", two calls of get_embedding with
\* the same text return equal outputs, for the empty text and for non-empty
\* texts, whatever calls happen in between.
C3_DeterministicRepeatable ==
    (Loaded /\ settings.fields["embedding_model"] = PyStr("deterministic"))
        => \A i, j \in 1..Len(calls) :
              calls[i].text = calls[j].text => calls[i].result = calls[j].result

\* C3 witness: the empty text was embedded twice under the deterministic
\* strategy with a call for a non-empty text in between, after the
\* environment named another strategy.
C3_Witness ==
    /\ Loaded
    /\ settings.fields["embedding_model"] = PyStr("deterministic")
    /\ Has(environ, "embedding_model")
    /\ Len(calls) = 3
    /\ calls[1].text = Text(<<>>, 1)
    /\ calls[2].text = Text(<<84, 104, 101>>, 1)
    /\ calls[3].text = Text(<<>>, 1)
    /\ calls[1].result = calls[3].result

\* C10: the settings object is made once, when the config module is loaded;
\* no later change of the environment or of the .env file, no later import
\* and no get_embedding call changes any field of it.
C10_SettingsFrozen == [][Loaded => settings' = settings]_vars

\* C10 witness: the settings are loaded, get_embedding was called, and the
\* environment has changed since, so that resolving again would give other
\* values.
C10_Witness ==
    /\ Loaded
    /\ Len(calls) > 0
    /\ changes > 0
    /\ Settings(environ, dotenv) # settings

(* ----------------------- claims about the records ---------------------- *)

Built == built # NotBuilt

Given(f) == f \in DOMAIN kwargs.args

Annotations == IF kwargs.cls = "Anchor" THEN AnchorAnnotations ELSE ResponseAnnotations

Required ==
    IF kwargs.cls = "Anchor" THEN {"anchor_id", "text", "stored_at"} ELSE {"anchor_id", "ok"}

\* v has the type the annotation names (an int counts as a float)
Declared(annotation, v) ==
    CASE annotation = "str"            -> v.type = "str"
      [] annotation = "str | None"     -> v.type \in {"str", "NoneType"}
      [] annotation = "float"          -> v.type \in {"float", "int"}
      [] annotation = "bool"           -> v.type = "bool"
      [] annotation = "datetime"       -> v.type = "datetime"
      [] annotation = "Dict[str, Any]" ->
            /\ v.type = "dict"
            /\ \A i \in 1..Len(v.items) : v.items[i][1].type = "str"

\* v has the declared type or a conversion to it
Convertible(annotation, v) ==
    \/ Declared(annotation, v)
    \/ annotation = "float" /\ v = NumberText
    \/ annotation = "bool" /\ (v \in {PyInt(0), PyInt(1)} \/ v = YesText)
    \/ annotation = "datetime" /\ (v.type = "int" \/ v = IsoText)

\* every argument but text is given with the declared type, or left out
\* where the class has a default
OtherwiseValid ==
    /\ \A f \in Required \ {"text"} : Given(f)
    /\ \A f \in DOMAIN kwargs.args \ {"text"} :
          Declared(Annotations[f], kwargs.args[f])

\* C6: an Anchor constructed with a str as text and otherwise valid fields
\* has exactly that text: empty, long, with NUL and control characters,
\* with unicode and emoji.
C6_TextPreserved ==
    ( /\ Built
      /\ kwargs.cls = "Anchor"
      /\ Given("text") /\ kwargs.args["text"].type = "str"
      /\ OtherwiseValid )
        => /\ built.ok
           /\ built.fields["text"] = kwargs.args["text"]

\* C6 witness: an Anchor was built from a text that begins with NUL and ends
\* with a newline, and holds it.
C6_Witness ==
    /\ Built /\ built.ok
    /\ kwargs.cls = "Anchor"
    /\ kwargs.args["text"] = Text(<<0, 10>>, 1)
    /\ built.fields["text"] = Text(<<0, 10>>, 1)

\* C7 as stated: a construction with a required field missing or with a
\* field of another type than the declared one fails with a validation
\* error.
C7_WrongTypeFails ==
    ( /\ Built
      /\ \/ \E f \in Required : ~ Given(f)
         \/ \E f \in DOMAIN kwargs.args : ~ Declared(Annotations[f], kwargs.args[f]) )
        => ~ built.ok

\* C7 amended: a construction with a required field missing, or with a value
\* that has no conversion to the declared type of its field, fails with a
\* validation error that names the field, and produces no record.
C7_UnconvertibleFails ==
    Built =>
        /\ \A f \in Required : ~ Given(f) => (~ built.ok /\ f \in built.errors)
        /\ \A f \in DOMAIN kwargs.args :
              ~ Convertible(Annotations[f], kwargs.args[f])
                  => (~ built.ok /\ f \in built.errors)
        /\ ~ built.ok => built.fields = <<>>

\* C7 witness: an IndexedAnchorResponse without ok and with an int as
\* anchor_id was refused for both fields.
C7_Witness ==
    /\ Built /\ ~ built.ok
    /\ kwargs.cls = "IndexedAnchorResponse"
    /\ ~ Given("ok")
    /\ Given("anchor_id") /\ kwargs.args["anchor_id"] = PyInt(123)
    /\ built.errors = {"anchor_id", "ok"}

\* C8: an Anchor built without salience has salience 1.0 and one built
\* without meta has an empty mapping; a salience or meta that is given is
\* kept (a float as it is, an int or a numeric text as the number it names).
C8_Defaults ==
    (Built /\ built.ok /\ kwargs.cls = "Anchor") =>
        /\ ~ Given("salience") => built.fields["salience"] = PyFloat(1000)
        /\ ~ Given("meta") => built.fields["meta"] = PyDict(<<>>)
        /\ Given("meta") => built.fields["meta"] = kwargs.args["meta"]
        /\ Given("salience") =>
              LET x == kwargs.args["salience"]
              IN  CASE x.type = "float" -> built.fields["salience"] = x
                    [] x.type = "int"   -> built.fields["salience"] = PyFloat(1000 * x.num)
                    [] x = NumberText   -> built.fields["salience"] = PyFloat(2500)

\* C8 witness: an Anchor built with neither salience nor meta, holding the
\* two defaults.
C8_Witness ==
    /\ Built /\ built.ok
    /\ kwargs.cls = "Anchor"
    /\ ~ Given("salience") /\ ~ Given("meta")
    /\ built.fields["salience"] = PyFloat(1000)
    /\ built.fields["meta"] = PyDict(<<>>)

====
